---- MODULE Spec2Model ----
(***************************************************************************)
(* Model of the XO bot's game-session engine (src/main.py): the in-memory  *)
(* registry `games` and the four callback handlers that read and write it  *)
(* (join_challenge_callback, game_move_callback, reset_game_callback,      *)
(* delete_game_callback), with check_winner, is_board_full and             *)
(* find_game_by_id as operators.                                           *)
(*                                                                         *)
(* Scheduling: the handlers are asyncio coroutines run on one event loop,  *)
(* so the code between two awaits is one atomic step.  In every handler    *)
(* the lookup, the checks and the writes to `games` lie between awaits     *)
(* that either end the handler (the answer of a rejection) or come after   *)
(* the last write (the answer and the re-rendering of the message), so     *)
(* each handler is one action on `games`.  The one await between a lookup  *)
(* and a write is state.get_data() at main.py:507, in the join that found  *)
(* no session.  In Spec, SpecRounds, SpecRender, SpecTwo and SpecLive the  *)
(* awaited value is at hand and the join goes on at once, with the value   *)
(* as its input `syms`; SpecAsync also has the runs in which the join is   *)
(* suspended there and other handlers run before it inserts its record.    *)
(*                                                                         *)
(* The answer a handler gives to the click is the `answer` field of its    *)
(* step operator (JoinStep, MoveStep, ResetStep, DeleteStep); the action    *)
(* keeps the registry the step leaves.  A rejected click is a step that    *)
(* leaves `games` as it was.                                               *)
(*                                                                         *)
(* Left out: the user names kept beside the ids (display only), the texts  *)
(* and keyboards sent to the transport, the subscription gate and the      *)
(* HTTP status pages.                                                      *)
(***************************************************************************)
EXTENDS Integers, Sequences, FiniteSets, TLC

\* ------------------------------------------------------------------ bounds

\* Positions tried by a move run from -PosSlack to 8 + PosSlack.
PosSlack == 1

\* A reset is modelled only while fewer than MaxWins rounds have been won,
\* so the win counters stay bounded.
MaxWins == 1

\* In the specification of the rounds, positions run from 0 to MaxRoundCell.
MaxRoundCell == 6

\* In the specification of the rounds, a reset is modelled only while fewer
\* than MaxRounds rounds have been won.
MaxRounds == 2

\* In the specifications of two sessions and of the suspended join, positions
\* run from 0 to MaxTwoCell.
MaxTwoCell == 1

\* ------------------------------------------------------------------ inputs

None == "None"

\* callback.from_user.id of the users who click: two who accept invitations
\* and a third party, who clicks the join button only of a session with both
\* seats taken (the handlers compare ids for equality only, so which of the
\* three sits where is a renaming).
Players == {"A", "B"}

Bystanders == {"W"}

Users == Players \cup Bystanders

\* The game ids carried by the callback data (uuid4 strings, main.py:178-180).
GameIds == {"g1"}

\* player1_symbol / player2_symbol found in the first joiner's stored data:
\* the defaults, and a custom pair (handle_symbol_input takes any one
\* character for each and does not compare the two).
SymbolPairs == {<<"X", "O">>, <<"Z", "Z">>}

Positions == (0 - PosSlack) .. (8 + PosSlack)

Cells == 0 .. 8

VARIABLES
    games,   \* main.py:54, in insertion order: a sequence of <<user_id, user_games>>
    call,    \* a call of check_winner: its argument and, once it returned, its result
    joining  \* the joins suspended at main.py:507: <<user_id, game_id>> of each

vars == <<games, call, joining>>

\* ------------------------------------------------------------------ board

EmptyBoard == [c \in Cells |-> ""]

winning_lines ==
    << <<0, 1, 2>>, <<3, 4, 5>>, <<6, 7, 8>>,
       <<0, 3, 6>>, <<1, 4, 7>>, <<2, 5, 8>>,
       <<0, 4, 8>>, <<2, 4, 6>> >>

LineWins(board, line) ==
    /\ board[line[1]] # ""
    /\ board[line[1]] = board[line[2]]
    /\ board[line[2]] = board[line[3]]

\* check_winner that returns the symbol of the last matching line.
check_winner_LastLine(board) ==
    IF \E k \in 1 .. Len(winning_lines) : LineWins(board, winning_lines[k])
    THEN LET k == CHOOSE k \in 1 .. Len(winning_lines) :
                    /\ LineWins(board, winning_lines[k])
                    /\ \A j \in (k + 1) .. Len(winning_lines) :
                            ~LineWins(board, winning_lines[j])
         IN  board[winning_lines[k][1]]
    ELSE None

\* main.py:150-163: the symbol of the first line, in the order of
\* winning_lines, whose three cells are equal and not empty; None if no line.
check_winner(board) ==
    IF \E k \in 1 .. Len(winning_lines) : LineWins(board, winning_lines[k])
    THEN LET k == CHOOSE k \in 1 .. Len(winning_lines) :
                    /\ LineWins(board, winning_lines[k])
                    /\ \A j \in 1 .. (k - 1) : ~LineWins(board, winning_lines[j])
         IN  board[winning_lines[k][1]]
    ELSE None

is_board_full(board) == \A c \in Cells : board[c] # ""

\* board[position] of a Python list of 9 cells: a negative position counts
\* from the end, anything outside -9..8 raises IndexError.
IndexOk(position) == position >= -9 /\ position <= 8

ListIndex(position) == IF position >= 0 THEN position ELSE 9 + position

\* ------------------------------------------------------------------ registry

HasGame(gs, game_id) == \E i \in 1 .. Len(gs) : game_id \in DOMAIN gs[i][2]

\* The place in `games` of the first bucket holding game_id, 0 if none.
FindIdx(gs, game_id) ==
    IF HasGame(gs, game_id)
    THEN CHOOSE i \in 1 .. Len(gs) :
            /\ game_id \in DOMAIN gs[i][2]
            /\ \A j \in 1 .. (i - 1) : game_id \notin DOMAIN gs[j][2]
    ELSE 0

find_game_by_id(gs, game_id) ==
    IF HasGame(gs, game_id)
    THEN <<gs[FindIdx(gs, game_id)][1], gs[FindIdx(gs, game_id)][2][game_id]>>
    ELSE <<None, None>>

BucketIdx(gs, user_id) ==
    IF \E i \in 1 .. Len(gs) : gs[i][1] = user_id
    THEN CHOOSE i \in 1 .. Len(gs) : gs[i][1] = user_id
    ELSE 0

\* d[k] = v on a dictionary held as a function.
DictSet(d, k, v) == [x \in (DOMAIN d) \cup {k} |-> IF x = k THEN v ELSE d[x]]

\* del d[k]
DictDel(d, k) == [x \in (DOMAIN d) \ {k} |-> d[x]]

\* games[owner][game_id] = game, for a bucket that exists at place i.
StoreAt(gs, i, game_id, game) ==
    [gs EXCEPT ![i] = <<gs[i][1], DictSet(gs[i][2], game_id, game)>>]

RemoveAt(s, i) == SubSeq(s, 1, i - 1) \o SubSeq(s, i + 1, Len(s))

\* ------------------------------------------------------------------ join

\* NewGame that does not mark the record as waiting for the second player.
NewGame_NotWaiting(user_id, syms) ==
    [ board                     |-> EmptyBoard,
      current_player            |-> "X",
      player1_id                |-> user_id,
      player2_id                |-> None,
      player1_symbol            |-> syms[1],
      player2_symbol            |-> syms[2],
      game_over                 |-> FALSE,
      winner                    |-> None,
      waiting_for_second_player |-> FALSE,
      player1_wins              |-> 0,
      player2_wins              |-> 0 ]

\* The record stored by the first acceptance (main.py:515-529).
NewGame(user_id, syms) ==
    [ board                     |-> EmptyBoard,
      current_player            |-> "X",
      player1_id                |-> user_id,
      player2_id                |-> None,
      player1_symbol            |-> syms[1],
      player2_symbol            |-> syms[2],
      game_over                 |-> FALSE,
      winner                    |-> None,
      waiting_for_second_player |-> TRUE,
      player1_wins              |-> 0,
      player2_wins              |-> 0 ]

\* games[user_id][game_id] = game, creating the user's bucket when missing
\* (main.py:512-515).
CreateGame(gs, user_id, game_id, game) ==
    LET withBucket == IF BucketIdx(gs, user_id) = 0
                      THEN Append(gs, <<user_id, <<>>>>)
                      ELSE gs
    IN  StoreAt(withBucket, BucketIdx(withBucket, user_id), game_id, game)

\* JoinCheck without the comparison with the first player's id.
JoinCheck_NoSeat1(game, user_id) ==
    IF user_id = game.player2_id THEN "AlreadySeat2"
    ELSE IF ~game.waiting_for_second_player THEN "SessionFull"
    ELSE IF game.player2_id # None THEN "SessionFull2"
    ELSE "seat"

\* JoinCheck without the comparison with the second player's id.
JoinCheck_NoSeat2(game, user_id) ==
    IF user_id = game.player1_id THEN "AlreadySeat1"
    ELSE IF ~game.waiting_for_second_player THEN "SessionFull"
    ELSE IF game.player2_id # None THEN "SessionFull2"
    ELSE "seat"

\* The checks of a join that finds the session (main.py:545-560), in the
\* code's order; "seat" when the joiner is to be seated.
JoinCheck(game, user_id) ==
    IF user_id = game.player1_id THEN "AlreadySeat1"
    ELSE IF user_id = game.player2_id THEN "AlreadySeat2"
    ELSE IF ~game.waiting_for_second_player THEN "SessionFull"
    ELSE IF game.player2_id # None THEN "SessionFull2"
    ELSE "seat"

\* SeatSecond without the write of waiting_for_second_player.
SeatSecond_StillWaiting(game, user_id) ==
    [game EXCEPT !.player2_id = user_id]

\* main.py:563-565
SeatSecond(game, user_id) ==
    [game EXCEPT !.player2_id = user_id, !.waiting_for_second_player = FALSE]

\* join_challenge_callback (main.py:487-613): the registry after it and the
\* answer given to the click.
JoinStep(gs, user_id, game_id, syms) ==
    IF ~HasGame(gs, game_id)
    THEN [ games  |-> CreateGame(gs, user_id, game_id, NewGame(user_id, syms)),
           answer |-> "Seat1Waiting" ]
    ELSE LET i    == FindIdx(gs, game_id)
             game == gs[i][2][game_id]
             chk  == JoinCheck(game, user_id)
         IN  IF chk = "seat"
             THEN [ games  |-> StoreAt(gs, i, game_id, SeatSecond(game, user_id)),
                    answer |-> "Seat2Started" ]
             ELSE [ games |-> gs, answer |-> chk ]

\* ------------------------------------------------------------------ move

\* current_symbol that is the first player's symbol on every turn.
current_symbol_AlwaysFirst(game) == game.player1_symbol

\* main.py:644
current_symbol(game) ==
    IF game.current_player = "X" THEN game.player1_symbol ELSE game.player2_symbol

\* OnTurn without the comparison made when the second seat is on turn.
OnTurn_FirstSeatOnly(game, user_id) ==
    game.current_player = "X" => user_id = game.player1_id

\* main.py:647-652: the requester is the player whose turn it is.
OnTurn(game, user_id) ==
    /\ game.current_player = "X" => user_id = game.player1_id
    /\ game.current_player = "O" => user_id = game.player2_id

\* MoveCheck without the test of the target cell.
MoveCheck_NoOccupied(game, user_id, position) ==
    IF game.game_over THEN "GameOver"
    ELSE IF game.waiting_for_second_player THEN "NotReady"
    ELSE IF ~OnTurn(game, user_id) THEN "NotYourTurn"
    ELSE IF ~IndexOk(position) THEN "Fault"
    ELSE "ok"

\* MoveCheck with the test of the target cell before the test of the turn.
MoveCheck_OccupiedFirst(game, user_id, position) ==
    IF game.game_over THEN "GameOver"
    ELSE IF game.waiting_for_second_player THEN "NotReady"
    ELSE IF ~IndexOk(position) THEN "Fault"
    ELSE IF game.board[ListIndex(position)] # "" THEN "CellOccupied"
    ELSE IF ~OnTurn(game, user_id) THEN "NotYourTurn"
    ELSE "ok"

\* The checks of a move on a session that exists (main.py:634-657), in the
\* code's order; "ok" when the move is to be made.  board[position] raises
\* IndexError outside -9..8, which safe_callback_handler (main.py:87-94)
\* answers with its general error message: "Fault".
MoveCheck(game, user_id, position) ==
    IF game.game_over THEN "GameOver"
    ELSE IF game.waiting_for_second_player THEN "NotReady"
    ELSE IF ~OnTurn(game, user_id) THEN "NotYourTurn"
    ELSE IF ~IndexOk(position) THEN "Fault"
    ELSE IF game.board[ListIndex(position)] # "" THEN "CellOccupied"
    ELSE "ok"

\* PlaceSymbol that writes the symbol on a cleared board.
PlaceSymbol_FreshBoard(game, position) ==
    [game EXCEPT !.board =
        [EmptyBoard EXCEPT ![ListIndex(position)] = current_symbol(game)]]

\* main.py:660
PlaceSymbol(game, position) ==
    [game EXCEPT !.board[ListIndex(position)] = current_symbol(game)]

\* main.py:672-677
CountWin(game, winner) ==
    IF winner = game.player1_symbol
    THEN [game EXCEPT !.player1_wins = @ + 1]
    ELSE [game EXCEPT !.player2_wins = @ + 1]

\* FlipTurn that leaves the turn where it is.
FlipTurn_Keep(game) == game

\* main.py:701
FlipTurn(game) ==
    [game EXCEPT !.current_player = IF @ = "X" THEN "O" ELSE "X"]

\* Evaluate with the full board tested before the winner.
Evaluate_FullFirst(game) ==
    LET winner  == check_winner(game.board)
        is_full == is_board_full(game.board)
    IN  IF is_full
        THEN [game EXCEPT !.game_over = TRUE]
        ELSE IF winner # None
        THEN CountWin([game EXCEPT !.game_over = TRUE, !.winner = winner], winner)
        ELSE FlipTurn(game)

\* Evaluate that does not end the game on a full board without a winner.
Evaluate_NoDraw(game) ==
    LET winner == check_winner(game.board)
    IN  IF winner # None
        THEN CountWin([game EXCEPT !.game_over = TRUE, !.winner = winner], winner)
        ELSE FlipTurn(game)

\* Evaluate that ends the game without recording the winner.
Evaluate_NoWinner(game) ==
    LET winner  == check_winner(game.board)
        is_full == is_board_full(game.board)
    IN  IF winner # None
        THEN CountWin([game EXCEPT !.game_over = TRUE], winner)
        ELSE IF is_full
        THEN [game EXCEPT !.game_over = TRUE]
        ELSE FlipTurn(game)

\* main.py:663-701: the outcome of the move just placed.
Evaluate(game) ==
    LET winner  == check_winner(game.board)
        is_full == is_board_full(game.board)
    IN  IF winner # None
        THEN CountWin([game EXCEPT !.game_over = TRUE, !.winner = winner], winner)
        ELSE IF is_full
        THEN [game EXCEPT !.game_over = TRUE]
        ELSE FlipTurn(game)

\* game_move_callback on the record it found (main.py:634-701): the record
\* after it and the answer given to the click.
MoveOn(game, user_id, position) ==
    LET chk == MoveCheck(game, user_id, position)
    IN  IF chk = "ok"
        THEN [ game |-> Evaluate(PlaceSymbol(game, position)), answer |-> "Moved" ]
        ELSE [ game |-> game, answer |-> chk ]

\* game_move_callback (main.py:617-729)
MoveStep(gs, user_id, game_id, position) ==
    IF ~HasGame(gs, game_id)
    THEN [ games |-> gs, answer |-> "SessionNotFound" ]
    ELSE LET i == FindIdx(gs, game_id)
             r == MoveOn(gs[i][2][game_id], user_id, position)
         IN  [ games  |-> IF r.answer = "Moved"
                          THEN StoreAt(gs, i, game_id, r.game)
                          ELSE gs,
               answer |-> r.answer ]

\* ------------------------------------------------------------------ reset

\* main.py:823
BothSeated(game) == game.player1_id # None /\ game.player2_id # None

\* SwappedGame that keeps the old board.
SwappedGame_OldBoard(old_game_data) ==
    [ old_game_data EXCEPT
        !.current_player            = "X",
        !.player1_id                = old_game_data.player2_id,
        !.player2_id                = old_game_data.player1_id,
        !.player1_symbol            = old_game_data.player2_symbol,
        !.player2_symbol            = old_game_data.player1_symbol,
        !.game_over                 = FALSE,
        !.winner                    = None,
        !.waiting_for_second_player = FALSE ]

\* SwappedGame that starts both win counters from 0.
SwappedGame_NoWins(old_game_data) ==
    [ old_game_data EXCEPT
        !.board                     = EmptyBoard,
        !.current_player            = "X",
        !.player1_id                = old_game_data.player2_id,
        !.player2_id                = old_game_data.player1_id,
        !.player1_symbol            = old_game_data.player2_symbol,
        !.player2_symbol            = old_game_data.player1_symbol,
        !.game_over                 = FALSE,
        !.winner                    = None,
        !.waiting_for_second_player = FALSE,
        !.player1_wins              = 0,
        !.player2_wins              = 0 ]

\* SwappedGame that leaves each identity in its seat.
SwappedGame_NoSwap(old_game_data) ==
    [ old_game_data EXCEPT
        !.board                     = EmptyBoard,
        !.current_player            = "X",
        !.game_over                 = FALSE,
        !.winner                    = None,
        !.waiting_for_second_player = FALSE ]

\* The record that replaces the old one (main.py:825-839).
SwappedGame(old_game_data) ==
    [ board                     |-> EmptyBoard,
      current_player            |-> "X",
      player1_id                |-> old_game_data.player2_id,
      player2_id                |-> old_game_data.player1_id,
      player1_symbol            |-> old_game_data.player2_symbol,
      player2_symbol            |-> old_game_data.player1_symbol,
      game_over                 |-> FALSE,
      winner                    |-> None,
      waiting_for_second_player |-> FALSE,
      player1_wins              |-> old_game_data.player1_wins,
      player2_wins              |-> old_game_data.player2_wins ]

\* reset_game_callback (main.py:805-888).  With a seat empty the handler
\* writes nothing and gives the same answer as after a swap (main.py:885).
ResetStep(gs, game_id) ==
    IF ~HasGame(gs, game_id)
    THEN [ games |-> gs, answer |-> "SessionNotFound" ]
    ELSE LET i   == FindIdx(gs, game_id)
             old == gs[i][2][game_id]
         IN  IF BothSeated(old)
             THEN [ games  |-> StoreAt(gs, i, game_id, SwappedGame(old)),
                    answer |-> "ResetDone" ]
             ELSE [ games |-> gs, answer |-> "ResetDone" ]

\* ------------------------------------------------------------------ delete

\* DeleteStep that removes the owner's whole bucket.
DeleteStep_WholeBucket(gs, game_id) ==
    IF ~HasGame(gs, game_id)
    THEN [ games |-> gs, answer |-> "NotFound" ]
    ELSE [ games |-> RemoveAt(gs, FindIdx(gs, game_id)), answer |-> "Deleted" ]

\* DeleteStep that removes only a session whose game is not over.
DeleteStep_UnfinishedOnly(gs, game_id) ==
    IF ~HasGame(gs, game_id)
    THEN [ games |-> gs, answer |-> "NotFound" ]
    ELSE LET i      == FindIdx(gs, game_id)
             bucket == DictDel(gs[i][2], game_id)
         IN  IF gs[i][2][game_id].game_over
             THEN [ games |-> gs, answer |-> "Deleted" ]
             ELSE [ games  |-> IF DOMAIN bucket = {}
                               THEN RemoveAt(gs, i)
                               ELSE [gs EXCEPT ![i] = <<gs[i][1], bucket>>],
                    answer |-> "Deleted" ]

\* DeleteStep that leaves the owner's bucket in place when it is left empty.
DeleteStep_KeepBucket(gs, game_id) ==
    IF ~HasGame(gs, game_id)
    THEN [ games |-> gs, answer |-> "NotFound" ]
    ELSE LET i == FindIdx(gs, game_id)
         IN  [ games  |-> [gs EXCEPT ![i] = <<gs[i][1], DictDel(gs[i][2], game_id)>>],
               answer |-> "Deleted" ]

\* delete_game_callback (main.py:753-801)
DeleteStep(gs, game_id) ==
    IF ~HasGame(gs, game_id)
    THEN [ games |-> gs, answer |-> "NotFound" ]
    ELSE LET i      == FindIdx(gs, game_id)
             bucket == DictDel(gs[i][2], game_id)
         IN  [ games  |-> IF DOMAIN bucket = {}
                          THEN RemoveAt(gs, i)
                          ELSE [gs EXCEPT ![i] = <<gs[i][1], bucket>>],
               answer |-> "Deleted" ]

\* delete_game_callback as the click of user_id: the handler reads the id of
\* the session from callback.data and never reads callback.from_user
\* (main.py:753-769).
DeleteRequest(gs, user_id, game_id) == DeleteStep(gs, game_id)

\* ------------------------------------------------------------------ system

\* No call of check_winner is under examination.
NoCall == [board |-> EmptyBoard, result |-> "pending"]

Init ==
    /\ games = <<>>
    /\ call = NoCall
    /\ joining = {}

Join(user_id, game_id, syms) ==
    /\ games' = JoinStep(games, user_id, game_id, syms).games
    /\ UNCHANGED <<call, joining>>

Move(user_id, game_id, position) ==
    /\ games' = MoveStep(games, user_id, game_id, position).games
    /\ UNCHANGED <<call, joining>>

\* In the specification of the rounds, positions run from 0 to MaxRoundCell.
WinsBelowBound(gs, game_id) ==
    HasGame(gs, game_id) =>
        LET game == find_game_by_id(gs, game_id)[2]
        IN  game.player1_wins + game.player2_wins < MaxWins

Reset(game_id) ==
    /\ WinsBelowBound(games, game_id)
    /\ games' = ResetStep(games, game_id).games
    /\ UNCHANGED <<call, joining>>

Delete(game_id) ==
    /\ games' = DeleteStep(games, game_id).games
    /\ UNCHANGED <<call, joining>>

\* The third party's click on the join button.
JoinFull(user_id, game_id, syms) ==
    /\ HasGame(games, game_id)
    /\ BothSeated(find_game_by_id(games, game_id)[2])
    /\ Join(user_id, game_id, syms)

Next ==
    \/ \E u \in Players, g \in GameIds, s \in SymbolPairs : Join(u, g, s)
    \/ \E u \in Bystanders, g \in GameIds, s \in SymbolPairs : JoinFull(u, g, s)
    \/ \E u \in Users, g \in GameIds, p \in Positions : Move(u, g, p)
    \/ \E g \in GameIds : Reset(g)
    \/ \E g \in GameIds : Delete(g)

Spec == Init /\ [][Next]_vars

\* ------------------------------------------------------ rounds and resets

\* Several rounds of one session with the default symbols (main.py:508-509),
\* the moves on the cells 0 .. MaxRoundCell.
DefaultSymbols == <<"X", "O">>

RoundPositions == 0 .. MaxRoundCell

RoundsBelowBound(gs, game_id) ==
    HasGame(gs, game_id) =>
        LET game == find_game_by_id(gs, game_id)[2]
        IN  game.player1_wins + game.player2_wins < MaxRounds

ResetRound(game_id) ==
    /\ RoundsBelowBound(games, game_id)
    /\ games' = ResetStep(games, game_id).games
    /\ UNCHANGED <<call, joining>>

NextRounds ==
    \/ \E u \in Players, g \in GameIds : Join(u, g, DefaultSymbols)
    \/ \E u \in Players, g \in GameIds, p \in RoundPositions : Move(u, g, p)
    \/ \E g \in GameIds : ResetRound(g)
    \/ \E g \in GameIds : Delete(g)

SpecRounds == Init /\ [][NextRounds]_vars

\* ------------------------------------------------------ failing transport

\* MoveHandled that restores the registry when the re-rendering fails.
MoveHandled_Rollback(gs, user_id, game_id, position, render_ok) ==
    LET r == MoveStep(gs, user_id, game_id, position)
    IN  IF r.answer = "Moved" /\ ~render_ok
        THEN [ games |-> gs, answer |-> "MovedUpdateFailed" ]
        ELSE r

\* game_move_callback with its transport calls: after the writes the handler
\* re-renders the message inside try (main.py:713-726); when that raises, the
\* except branch logs and answers (main.py:727-729) and writes nothing.
\* render_ok: the transport calls succeed.
MoveHandled(gs, user_id, game_id, position, render_ok) ==
    LET r == MoveStep(gs, user_id, game_id, position)
    IN  IF r.answer = "Moved" /\ ~render_ok
        THEN [ games |-> r.games, answer |-> "MovedUpdateFailed" ]
        ELSE r

\* join_challenge_callback with its transport calls (main.py:581-613).
JoinHandled(gs, user_id, game_id, syms, render_ok) ==
    LET r == JoinStep(gs, user_id, game_id, syms)
    IN  IF r.answer \in {"Seat1Waiting", "Seat2Started"} /\ ~render_ok
        THEN [ games |-> r.games, answer |-> "JoinedUpdateFailed" ]
        ELSE r

\* reset_game_callback with its transport calls (main.py:873-888).
ResetHandled(gs, game_id, render_ok) ==
    LET r == ResetStep(gs, game_id)
    IN  IF r.answer = "ResetDone" /\ ~render_ok
        THEN [ games |-> r.games, answer |-> "ResetUpdateFailed" ]
        ELSE r

\* delete_game_callback with its transport calls (main.py:784-799).
DeleteHandled(gs, game_id, render_ok) ==
    LET r == DeleteStep(gs, game_id)
    IN  IF r.answer = "Deleted" /\ ~render_ok
        THEN [ games |-> r.games, answer |-> "DeletedUpdateFailed" ]
        ELSE r

JoinRender(user_id, game_id, syms, render_ok) ==
    /\ games' = JoinHandled(games, user_id, game_id, syms, render_ok).games
    /\ UNCHANGED <<call, joining>>

MoveRender(user_id, game_id, position, render_ok) ==
    /\ games' = MoveHandled(games, user_id, game_id, position, render_ok).games
    /\ UNCHANGED <<call, joining>>

ResetRender(game_id, render_ok) ==
    /\ RoundsBelowBound(games, game_id)
    /\ games' = ResetHandled(games, game_id, render_ok).games
    /\ UNCHANGED <<call, joining>>

DeleteRender(game_id, render_ok) ==
    /\ games' = DeleteHandled(games, game_id, render_ok).games
    /\ UNCHANGED <<call, joining>>

NextRender ==
    \/ \E u \in Players, g \in GameIds, ok \in BOOLEAN :
          JoinRender(u, g, DefaultSymbols, ok)
    \/ \E u \in Players, g \in GameIds, p \in RoundPositions, ok \in BOOLEAN :
          MoveRender(u, g, p, ok)
    \/ \E g \in GameIds, ok \in BOOLEAN : ResetRender(g, ok)
    \/ \E g \in GameIds, ok \in BOOLEAN : DeleteRender(g, ok)

SpecRender == Init /\ [][NextRender]_vars

\* ------------------------------------------------------ two sessions

TwoIds == {"g1", "g2"}

TwoPositions == 0 .. MaxTwoCell

NextTwo ==
    \/ \E u \in Players, g \in TwoIds : Join(u, g, DefaultSymbols)
    \/ \E u \in Players, g \in TwoIds, p \in TwoPositions : Move(u, g, p)
    \/ \E g \in TwoIds : Reset(g)
    \/ \E g \in TwoIds : Delete(g)

SpecTwo == Init /\ [][NextTwo]_vars

\* ------------------------------------------------------ the suspended join

\* join_challenge_callback up to its first await: with the session found
\* (main.py:544-565) the handler checks and writes before it awaits; with no
\* session found it awaits state.get_data() (main.py:507) and is suspended.
JoinLookup(user_id, game_id, syms) ==
    IF HasGame(games, game_id)
    THEN /\ games' = JoinStep(games, user_id, game_id, syms).games
         /\ UNCHANGED <<call, joining>>
    ELSE /\ joining' = joining \cup {<<user_id, game_id>>}
         /\ UNCHANGED <<games, call>>

\* The suspended join goes on with the awaited symbols and stores its record
\* (main.py:508-529), without a second lookup.
JoinInsert(user_id, game_id, syms) ==
    /\ <<user_id, game_id>> \in joining
    /\ games' = CreateGame(games, user_id, game_id, NewGame(user_id, syms))
    /\ joining' = joining \ {<<user_id, game_id>>}
    /\ UNCHANGED call

NextAsync ==
    \/ \E u \in Players, g \in GameIds, s \in SymbolPairs : JoinLookup(u, g, s)
    \/ \E u \in Players, g \in GameIds, s \in SymbolPairs : JoinInsert(u, g, s)
    \/ \E u \in Players, g \in GameIds, p \in TwoPositions : Move(u, g, p)
    \/ \E g \in GameIds : Reset(g)
    \/ \E g \in GameIds : Delete(g)

SpecAsync == Init /\ [][NextAsync]_vars

\* ------------------------------------------------------ one round played out

\* The player whose turn it is clicks an empty cell (main.py:644-660).
TurnMove(game_id) ==
    /\ HasGame(games, game_id)
    /\ LET game == find_game_by_id(games, game_id)[2]
       IN  /\ ~game.waiting_for_second_player
           /\ ~game.game_over
           /\ \E p \in Cells :
                  /\ game.board[p] = ""
                  /\ Move(IF game.current_player = "X"
                          THEN game.player1_id ELSE game.player2_id,
                          game_id, p)

\* One round with no reset and no delete: the joins, every click on a cell,
\* and the clicks of the player on turn on empty cells.
NextLive ==
    \/ \E u \in Players, g \in GameIds, s \in SymbolPairs : Join(u, g, s)
    \/ \E u \in Users, g \in GameIds, p \in Positions : Move(u, g, p)
    \/ \E g \in GameIds : TurnMove(g)

\* The player on turn does not stop clicking empty cells: a click that stays
\* possible is made in the end.
SpecLive ==
    Init /\ [][NextLive]_vars /\ \A g \in GameIds : WF_vars(TurnMove(g))

\* ------------------------------------------------------ check_winner alone

\* The symbols on the boards handed to check_winner.
BoardSymbols == {"X", "O"}

\* Every 9-cell board over empty and the two symbols.
Boards == [Cells -> {""} \cup BoardSymbols]

InitBoards ==
    /\ games = <<>>
    /\ call \in {[board |-> b, result |-> "pending"] : b \in Boards}
    /\ joining = {}

\* check_winner(board) is called and returns.
CheckWinner ==
    /\ call.result = "pending"
    /\ call' = [call EXCEPT !.result = check_winner(call.board)]
    /\ UNCHANGED <<games, joining>>

NextBoards == CheckWinner

SpecBoards == InitBoards /\ [][NextBoards]_vars

\* ------------------------------------------------------------------ claims

GameOf(gs, game_id) == find_game_by_id(gs, game_id)[2]

InProgress(game) == ~game.waiting_for_second_player /\ ~game.game_over

\* The identity in the seat that is on turn.
SeatOnTurn(game) ==
    IF game.current_player = "X" THEN game.player1_id ELSE game.player2_id

\* The symbol of the seat the user sits in.
SymbolOf(game, user_id) ==
    IF user_id = game.player1_id THEN game.player1_symbol ELSE game.player2_symbol

\* The conditions of an accepted move on a session that exists: in progress,
\* the target one of the 9 cells and empty, the requester in the seat on turn.
Acceptable(game, user_id, position) ==
    /\ InProgress(game)
    /\ position \in Cells
    /\ game.board[position] = ""
    /\ user_id = SeatOnTurn(game)

\* C1: a move places the mover's symbol on the board if and only if the
\* session exists, is in progress, the target cell is empty and the requester
\* sits in the seat on turn; in every other case the board stays as it was.
C1_PlacedIffAcceptable ==
    \A g \in GameIds :
        IF HasGame(games, g)
        THEN LET game == GameOf(games, g)
             IN  \A u \in Users, p \in Positions :
                    MoveOn(game, u, p).game.board =
                        IF Acceptable(game, u, p)
                        THEN [game.board EXCEPT ![p] = SymbolOf(game, u)]
                        ELSE game.board
        ELSE \A u \in Users, p \in Positions : MoveStep(games, u, g, p).games = games

\* The kinds of move the claims list as rejected, on a session that exists.
RejectedKind(game, user_id, position) ==
    \/ game.waiting_for_second_player
    \/ game.game_over
    \/ user_id # SeatOnTurn(game)
    \/ position \notin Cells
    \/ game.board[position] # ""

\* C2: a move of a rejected kind (unknown session, awaiting the second
\* player, finished, requester not on turn, occupied cell, position outside
\* 0..8) leaves the whole registry, and so the whole session record, unchanged.
C2_RejectedKeepsRecord ==
    \A g \in GameIds, u \in Users, p \in Positions :
        (HasGame(games, g) => RejectedKind(GameOf(games, g), u, p)) =>
            MoveStep(games, u, g, p).games = games

\* No move changes a cell that is not empty.
NoOverwrite ==
    \A g \in GameIds :
        HasGame(games, g) =>
            LET game == GameOf(games, g)
            IN  \A u \in Users, p \in Positions :
                    LET after == MoveOn(game, u, p).game.board
                    IN  \A c \in Cells : game.board[c] # "" => after[c] = game.board[c]

\* The answers to two clicks on cell p handled one after the other, the
\* first by u1 and the second by u2.
RaceAnswers(game, u1, u2, p) ==
    LET r1 == MoveOn(game, u1, p)
    IN  <<r1.answer, MoveOn(r1.game, u2, p).answer>>

\* Exactly one of the two answers is an acceptance, the other is in `rejections`.
OneAccepted(answers, rejections) ==
    \/ answers[1] = "Moved" /\ answers[2] \in rejections
    \/ answers[2] = "Moved" /\ answers[1] \in rejections

\* The two seated players click the same empty cell of a session in progress.
RacingClicks(game, u1, u2, p) ==
    /\ InProgress(game)
    /\ game.board[p] = ""
    /\ u1 # u2
    /\ {u1, u2} = {game.player1_id, game.player2_id}

\* C3 as claimed, on the sessions whose two symbols differ: no move overwrites
\* a non-empty cell, and of the two players' clicks racing for one empty cell,
\* in either order, exactly one is accepted and the other is rejected with
\* NotYourTurn or CellOccupied.
C3_RaceAsClaimed ==
    /\ NoOverwrite
    /\ \A g \in GameIds :
          HasGame(games, g) =>
              LET game == GameOf(games, g)
              IN  \A u1 \in Users, u2 \in Users, p \in Cells :
                      (/\ RacingClicks(game, u1, u2, p)
                       /\ game.player1_symbol # game.player2_symbol) =>
                          OneAccepted(RaceAnswers(game, u1, u2, p),
                                      {"NotYourTurn", "CellOccupied"})

\* C3 as amended: no move overwrites a non-empty cell, and of the two players'
\* clicks racing for one empty cell, in either order, exactly one is accepted
\* and the other is rejected with NotYourTurn, with CellOccupied or, when the
\* accepted click ended the game, with GameOver.
C3_RaceOneAccepted ==
    /\ NoOverwrite
    /\ \A g \in GameIds :
          HasGame(games, g) =>
              LET game == GameOf(games, g)
              IN  \A u1 \in Users, u2 \in Users, p \in Cells :
                      RacingClicks(game, u1, u2, p) =>
                          LET a == RaceAnswers(game, u1, u2, p)
                          IN  /\ OneAccepted(a, {"NotYourTurn", "CellOccupied", "GameOver"})
                              /\ a[2] = "GameOver" => MoveOn(game, u1, p).game.game_over

\* C3 witness: a session in progress, some cells taken, where the two players
\* race for an empty cell: the click of the player on turn, handled first, is
\* accepted and the other player's click then finds the cell taken; handled
\* in the other order, the other player's click is refused as not on turn.
C3_Witness ==
    \E g \in GameIds :
        /\ HasGame(games, g)
        /\ LET game == GameOf(games, g)
           IN  /\ \E c \in Cells : game.board[c] # ""
               /\ \E u1 \in Users, u2 \in Users, p \in Cells :
                      /\ RacingClicks(game, u1, u2, p)
                      /\ RaceAnswers(game, u1, u2, p) = <<"Moved", "CellOccupied">>
                      /\ RaceAnswers(game, u2, u1, p) = <<"NotYourTurn", "Moved">>

\* C4: after an accepted move that does not end the game the other seat is on
\* turn, and no further move of the same user is accepted before the other
\* player has moved.
C4_TurnAlternates ==
    \A g \in GameIds :
        HasGame(games, g) =>
            LET game == GameOf(games, g)
            IN  \A u \in Users, p \in Positions :
                    LET r == MoveOn(game, u, p)
                    IN  (r.answer = "Moved" /\ ~r.game.game_over) =>
                            /\ r.game.current_player # game.current_player
                            /\ SeatOnTurn(r.game) # u
                            /\ SeatOnTurn(r.game) \in {game.player1_id, game.player2_id}
                            /\ \A q \in Positions :
                                    MoveOn(r.game, u, q).answer = "NotYourTurn"

\* C4 witness: three moves have been accepted, seat1's, seat2's and seat1's,
\* the game goes on and the second seat is on turn.
C4_Witness ==
    \E g \in GameIds :
        /\ HasGame(games, g)
        /\ LET game == GameOf(games, g)
           IN  /\ InProgress(game)
               /\ game.player1_symbol # game.player2_symbol
               /\ Cardinality({c \in Cells : game.board[c] = game.player1_symbol}) = 2
               /\ Cardinality({c \in Cells : game.board[c] = game.player2_symbol}) = 1
               /\ game.current_player = "O"
               /\ SeatOnTurn(game) = game.player2_id

\* C5 as claimed: the answer to a move on a cell of the board is the first
\* failing check in the order session, phase, occupied cell, turn.
C5_OrderAsClaimed ==
    \A g \in GameIds, u \in Users, p \in Cells :
        LET answer == MoveStep(games, u, g, p).answer
        IN  IF ~HasGame(games, g) THEN answer = "SessionNotFound"
            ELSE IF GameOf(games, g).game_over THEN answer = "GameOver"
            ELSE IF GameOf(games, g).waiting_for_second_player THEN answer = "NotReady"
            ELSE IF GameOf(games, g).board[p] # "" THEN answer = "CellOccupied"
            ELSE IF u # SeatOnTurn(GameOf(games, g)) THEN answer = "NotYourTurn"
            ELSE TRUE

\* C5 as amended: the answer to a move is the first failing check in the
\* order session (SessionNotFound), phase (GameOver, NotReady), turn
\* (NotYourTurn), occupied cell (CellOccupied).
C5_OrderTurnFirst ==
    \A g \in GameIds, u \in Users, p \in Positions :
        LET answer == MoveStep(games, u, g, p).answer
        IN  IF ~HasGame(games, g) THEN answer = "SessionNotFound"
            ELSE IF GameOf(games, g).game_over THEN answer = "GameOver"
            ELSE IF GameOf(games, g).waiting_for_second_player THEN answer = "NotReady"
            ELSE IF u # SeatOnTurn(GameOf(games, g)) THEN answer = "NotYourTurn"
            ELSE IF p \in Cells /\ GameOf(games, g).board[p] # "" THEN answer = "CellOccupied"
            ELSE TRUE

\* C5 witness: a session in progress where the player not on turn clicks a
\* taken cell, so that both the turn check and the cell check fail, and is
\* answered NotYourTurn, while the player on turn clicking the same cell is
\* answered CellOccupied.
C5_Witness ==
    \E g \in GameIds :
        /\ HasGame(games, g)
        /\ LET game == GameOf(games, g)
           IN  /\ InProgress(game)
               /\ \E u \in {game.player1_id, game.player2_id}, c \in Cells :
                      /\ game.board[c] # ""
                      /\ u # SeatOnTurn(game)
                      /\ MoveStep(games, u, g, c).answer = "NotYourTurn"
                      /\ MoveStep(games, SeatOnTurn(game), g, c).answer = "CellOccupied"

\* C6: a move of the player on turn, on a session in progress, to a position
\* outside 0..8 is answered OutOfRange and writes nothing.
C6_OutOfRangeReported ==
    \A g \in GameIds, u \in Users, p \in Positions \ Cells :
        (/\ HasGame(games, g)
         /\ InProgress(GameOf(games, g))
         /\ u = SeatOnTurn(GameOf(games, g))) =>
            LET r == MoveStep(games, u, g, p)
            IN  r.answer = "OutOfRange" /\ r.games = games

C8_FullSessionRejects ==
    \A g \in GameIds :
        HasGame(games, g) =>
            LET game == GameOf(games, g)
            IN  BothSeated(game) =>
                    \A u \in Users, s \in SymbolPairs :
                        LET r == JoinStep(games, u, g, s)
                        IN  /\ r.games = games
                            /\ r.answer = IF u = game.player1_id THEN "AlreadySeat1"
                                          ELSE IF u = game.player2_id THEN "AlreadySeat2"
                                          ELSE "SessionFull"

\* C8 witness: a finished session with both seats taken, where the acceptance
\* of a third user is answered SessionFull and those of the two occupants
\* AlreadySeat1 and AlreadySeat2.
C8_Witness ==
    \E g \in GameIds :
        /\ HasGame(games, g)
        /\ LET game == GameOf(games, g)
           IN  /\ BothSeated(game)
               /\ game.game_over
               /\ \E u \in Users \ {game.player1_id, game.player2_id}, s \in SymbolPairs :
                      JoinStep(games, u, g, s).answer = "SessionFull"
               /\ \E s \in SymbolPairs :
                      /\ JoinStep(games, game.player1_id, g, s).answer = "AlreadySeat1"
                      /\ JoinStep(games, game.player2_id, g, s).answer = "AlreadySeat2"

\* Some row, column or diagonal holds three equal symbols.
UniformLine(board) ==
    \E line \in { <<0, 1, 2>>, <<3, 4, 5>>, <<6, 7, 8>>, <<0, 3, 6>>,
                  <<1, 4, 7>>, <<2, 5, 8>>, <<0, 4, 8>>, <<2, 4, 6>> } :
        /\ board[line[1]] # ""
        /\ board[line[1]] = board[line[2]]
        /\ board[line[1]] = board[line[3]]

\* C9: an accepted move that completes a line finishes the session as won and
\* adds exactly 1 to the counter of the seat that moved, leaving the other
\* counter as it was, whatever the two symbols of the session.
C9_WinCountsMover ==
    \A g \in GameIds :
        HasGame(games, g) =>
            LET game == GameOf(games, g)
            IN  \A u \in Users, p \in Positions :
                    LET r == MoveOn(game, u, p)
                    IN  (r.answer = "Moved" /\ UniformLine(r.game.board)) =>
                            /\ r.game.game_over
                            /\ r.game.winner # None
                            /\ r.game.player1_wins =
                                  game.player1_wins + (IF u = game.player1_id THEN 1 ELSE 0)
                            /\ r.game.player2_wins =
                                  game.player2_wins + (IF u = game.player2_id THEN 1 ELSE 0)

\* C10: an accepted move that fills the board finishes the session, as won
\* when the full board holds a uniform line and otherwise as drawn with both
\* counters unchanged; and a move ends a game as drawn only by filling a
\* board that holds no uniform line.
C10_DrawIffFullNoLine ==
    \A g \in GameIds :
        HasGame(games, g) =>
            LET game == GameOf(games, g)
            IN  \A u \in Users, p \in Positions :
                    LET r     == MoveOn(game, u, p)
                        full  == \A c \in Cells : r.game.board[c] # ""
                        drawn == r.game.game_over /\ r.game.winner = None
                    IN  r.answer = "Moved" =>
                            /\ full => r.game.game_over
                            /\ drawn <=> (full /\ ~UniformLine(r.game.board))
                            /\ drawn => /\ r.game.player1_wins = game.player1_wins
                                        /\ r.game.player2_wins = game.player2_wins
                            /\ (full /\ UniformLine(r.game.board)) => r.game.winner # None

\* C10 witness: the ninth move has ended a game as drawn.
C10_Witness ==
    \E g \in GameIds :
        /\ HasGame(games, g)
        /\ GameOf(games, g).game_over
        /\ GameOf(games, g).winner = None
        /\ \A c \in Cells : GameOf(games, g).board[c] # ""
        /\ ~UniformLine(GameOf(games, g).board)

\* The 8 lines in the order rows, columns, diagonals.
LinesInOrder ==
    << <<0, 1, 2>>, <<3, 4, 5>>, <<6, 7, 8>> >> \o
    << <<0, 3, 6>>, <<1, 4, 7>>, <<2, 5, 8>> >> \o
    << <<0, 4, 8>>, <<2, 4, 6>> >>

\* The places in LinesInOrder of the lines holding three equal non-empty cells.
UniformPlaces(board) ==
    { k \in 1 .. 8 :
        /\ board[LinesInOrder[k][1]] # ""
        /\ board[LinesInOrder[k][2]] = board[LinesInOrder[k][1]]
        /\ board[LinesInOrder[k][3]] = board[LinesInOrder[k][1]] }

\* C11: on every 9-cell board over empty and two symbols, check_winner returns
\* a symbol if and only if one of the 8 lines holds three equal non-empty
\* cells, the symbol is the one on the first such line in the order rows,
\* columns, diagonals, and otherwise it returns None.
C11_WinnerFirstLine ==
    call.result # "pending" =>
        LET places == UniformPlaces(call.board)
        IN  /\ (call.result \in BoardSymbols) <=> (places # {})
            /\ places = {} => call.result = None
            /\ places # {} =>
                    LET first == CHOOSE k \in places : \A j \in places : k <= j
                    IN  call.result = call.board[LinesInOrder[first][1]]

\* C11 witness: check_winner has returned "O" on a board whose first row holds
\* three "O" and whose second row holds three "X".
C11_Witness ==
    /\ call.result = "O"
    /\ \A c \in {0, 1, 2} : call.board[c] = "O"
    /\ \A c \in {3, 4, 5} : call.board[c] = "X"

\* The session of id g after a reset handled in the present state.
AfterReset(g) == GameOf(ResetStep(games, g).games, g)

\* The bucket g is stored in belongs to the identity now in seat2: the seats
\* have been swapped an odd number of times since the session was created.
SeatsSwapped(g) ==
    /\ HasGame(games, g)
    /\ find_game_by_id(games, g)[1] = GameOf(games, g).player2_id

\* C12: a reset of a session with both seats taken, in any phase, leaves under
\* the same id a session with an empty board, seat1 on turn, in progress, no
\* winner recorded and the same two identities seated.
C12_ResetFreshRound ==
    \A g \in GameIds :
        (HasGame(games, g) /\ BothSeated(GameOf(games, g))) =>
            /\ HasGame(ResetStep(games, g).games, g)
            /\ LET old == GameOf(games, g)
                   new == AfterReset(g)
               IN  /\ new.board = EmptyBoard
                   /\ new.current_player = "X"
                   /\ SeatOnTurn(new) = new.player1_id
                   /\ InProgress(new)
                   /\ new.winner = None
                   /\ {new.player1_id, new.player2_id} = {old.player1_id, old.player2_id}
                   /\ new.player1_id # new.player2_id

\* C12 witness: a reset has acted on a session with a round won: the seats are
\* swapped, the board is empty, the game in progress with no winner recorded.
C12_Witness ==
    \E g \in GameIds :
        /\ SeatsSwapped(g)
        /\ GameOf(games, g).board = EmptyBoard
        /\ InProgress(GameOf(games, g))
        /\ GameOf(games, g).winner = None
        /\ GameOf(games, g).player1_wins + GameOf(games, g).player2_wins = 1

\* The win counter stored on the seat the user sits in.
WinsOf(game, user_id) ==
    IF user_id = game.player1_id THEN game.player1_wins ELSE game.player2_wins

\* C13: across a reset the win counter follows the identity: for each of the
\* two identities the counter stored on its seat after the reset equals the
\* counter stored on its seat before.
C13_CountersFollowIdentity ==
    \A g \in GameIds :
        (HasGame(games, g) /\ BothSeated(GameOf(games, g))) =>
            \A u \in {GameOf(games, g).player1_id, GameOf(games, g).player2_id} :
                WinsOf(AfterReset(g), u) = WinsOf(GameOf(games, g), u)

\* C14: a reset keeps the sum of the two win counters, whatever the phase.
C14_ResetKeepsSum ==
    \A g \in GameIds :
        HasGame(games, g) =>
            AfterReset(g).player1_wins + AfterReset(g).player2_wins =
                GameOf(games, g).player1_wins + GameOf(games, g).player2_wins

\* C14 witness: a second round is being played after a reset, with a round
\* won on the counters.
C14_Witness ==
    \E g \in GameIds :
        /\ SeatsSwapped(g)
        /\ InProgress(GameOf(games, g))
        /\ GameOf(games, g).board # EmptyBoard
        /\ GameOf(games, g).player1_wins + GameOf(games, g).player2_wins = 1

\* C15: after a reset with both seats taken the identity that was in seat2 is
\* in seat1 and is the only one whose move is accepted first in the new round,
\* the identity that was in seat1 is in seat2, and a second reset restores the
\* original seating.
C15_ResetSwapsRoles ==
    \A g \in GameIds :
        (HasGame(games, g) /\ BothSeated(GameOf(games, g))) =>
            LET old   == GameOf(games, g)
                once  == ResetStep(games, g).games
                new   == GameOf(once, g)
                twice == GameOf(ResetStep(once, g).games, g)
            IN  /\ new.player1_id = old.player2_id
                /\ new.player2_id = old.player1_id
                /\ \A u \in Users, p \in Cells :
                        MoveOn(new, u, p).answer = "Moved" <=> u = old.player2_id
                /\ twice.player1_id = old.player1_id
                /\ twice.player2_id = old.player2_id

\* C15 witness: after a reset the user who joined second, now in seat1, has
\* made the first move of the new round.
C15_Witness ==
    \E g \in GameIds :
        /\ SeatsSwapped(g)
        /\ InProgress(GameOf(games, g))
        /\ GameOf(games, g).current_player = "O"
        /\ Cardinality({c \in Cells : GameOf(games, g).board[c] # ""}) = 1
        /\ \E c \in Cells : GameOf(games, g).board[c] = GameOf(games, g).player1_symbol

\* C16: a reset of a session awaiting its second player is rejected as
\* IncompleteRoster and leaves the record unchanged: seat1 keeps its occupant,
\* the session still awaits, and a later join by another user takes seat2.
C16_ResetAwaitingRejected ==
    \A g \in GameIds :
        (HasGame(games, g) /\ GameOf(games, g).waiting_for_second_player) =>
            LET r == ResetStep(games, g)
            IN  /\ r.answer = "IncompleteRoster"
                /\ r.games = games
                /\ \A v \in Users \ {GameOf(games, g).player1_id} :
                        GameOf(JoinStep(r.games, v, g, DefaultSymbols).games, g).player2_id = v

C18_IdNeverReused ==
    \A g \in TwoIds :
        HasGame(games, g) =>
            LET after == DeleteStep(games, g).games
            IN  /\ ~HasGame(after, g)
                /\ \A u \in Users :
                        ~HasGame(JoinStep(after, u, g, DefaultSymbols).games, g)
                /\ \A u \in Users, p \in TwoPositions :
                        ~HasGame(MoveStep(after, u, g, p).games, g)
                /\ ~HasGame(ResetStep(after, g).games, g)
                /\ ~HasGame(DeleteStep(after, g).games, g)

\* The places in the registry of the buckets that hold a record for the id.
RecordsOf(gs, game_id) == {i \in 1 .. Len(gs) : game_id \in DOMAIN gs[i][2]}

\* C19: in every reachable state at most one record exists for an id across
\* all buckets, also when two users accept the same fresh invitation and
\* their joins overlap at the await between lookup and insert.
C19_OneRecordPerId ==
    \A g \in GameIds : Cardinality(RecordsOf(games, g)) <= 1

\* What an event carrying the id x makes of the registry: every join, move,
\* reset and delete.
EventsOn(gs, x) ==
    {JoinStep(gs, u, x, s).games : u \in Users, s \in SymbolPairs}
        \cup {MoveStep(gs, u, x, p).games : u \in Users, p \in Positions}
        \cup {ResetStep(gs, x).games, DeleteStep(gs, x).games}

\* C20: an event carrying the id x leaves every session of another id as it
\* was and findable under the same owner, also in the bucket x is stored in
\* and also when the delete of x removes a bucket.
C20_OtherSessionsUntouched ==
    \A x \in TwoIds, y \in TwoIds :
        (x # y /\ HasGame(games, y)) =>
            \A after \in EventsOn(games, x) :
                /\ HasGame(after, y)
                /\ find_game_by_id(after, y) = find_game_by_id(games, y)
                /\ Cardinality(RecordsOf(after, y)) = 1

\* C20 witness: two sessions in one bucket, the second one with both seats
\* taken and a move made, and the delete of the first leaves the second.
C20_Witness ==
    /\ Len(games) = 1
    /\ DOMAIN games[1][2] = TwoIds
    /\ \E y \in TwoIds :
          /\ BothSeated(GameOf(games, y))
          /\ GameOf(games, y).board # EmptyBoard
          /\ \E x \in TwoIds \ {y} :
                /\ ~HasGame(DeleteStep(games, x).games, x)
                /\ HasGame(DeleteStep(games, x).games, y)

\* The player on turn and a user in neither seat click the same empty cell of
\* a session in progress.
BystanderRace(game, w, p) ==
    /\ InProgress(game)
    /\ game.board[p] = ""
    /\ w \notin {game.player1_id, game.player2_id}

\* C21 as claimed, on the sessions whose two symbols differ: of the clicks on
\* one empty cell by the player on turn and by a user in neither seat, in
\* either order the first is the only one accepted and the second is
\* answered NotYourTurn.
C21_BystanderAsClaimed ==
    \A g \in GameIds :
        HasGame(games, g) =>
            LET game == GameOf(games, g)
            IN  \A w \in Users, p \in Cells :
                    (/\ BystanderRace(game, w, p)
                     /\ game.player1_symbol # game.player2_symbol) =>
                        /\ RaceAnswers(game, SeatOnTurn(game), w, p) = <<"Moved", "NotYourTurn">>
                        /\ RaceAnswers(game, w, SeatOnTurn(game), p) = <<"NotYourTurn", "Moved">>

\* C21 as amended: in either order the click of the player on turn is the
\* only one accepted and the other user's click writes nothing; it is
\* answered NotYourTurn, or GameOver when it comes after the accepted click
\* and that click ended the game.
C21_BystanderRejected ==
    \A g \in GameIds :
        HasGame(games, g) =>
            LET game == GameOf(games, g)
            IN  \A w \in Users, p \in Cells :
                    BystanderRace(game, w, p) =>
                        LET t     == SeatOnTurn(game)
                            moved == MoveOn(game, t, p)
                        IN  /\ RaceAnswers(game, w, t, p) = <<"NotYourTurn", "Moved">>
                            /\ MoveOn(game, w, p).game = game
                            /\ RaceAnswers(game, t, w, p) =
                                    <<"Moved", IF moved.game.game_over
                                               THEN "GameOver" ELSE "NotYourTurn">>
                            /\ MoveOn(moved.game, w, p).game = moved.game

\* C21 witness: a session in progress, cells taken, where a user in neither
\* seat races the player on turn for an empty cell and is answered
\* NotYourTurn in both orders.
C21_Witness ==
    \E g \in GameIds :
        /\ HasGame(games, g)
        /\ LET game == GameOf(games, g)
           IN  /\ \E c \in Cells : game.board[c] # ""
               /\ \E w \in Users, p \in Cells :
                      /\ BystanderRace(game, w, p)
                      /\ RaceAnswers(game, SeatOnTurn(game), w, p) = <<"Moved", "NotYourTurn">>
                      /\ RaceAnswers(game, w, SeatOnTurn(game), p) = <<"NotYourTurn", "Moved">>

\* The number of cells of the board that are not empty.
Marks(board) == Cardinality({c \in Cells : board[c] # ""})

\* C22: when the transport call that re-renders the message fails after an
\* accepted move, join, reset or delete, the registry is the one the handler
\* had committed: the change is kept, not undone and not made twice.
C22_CommittedBeforeRender ==
    \A g \in GameIds :
        /\ \A u \in Users, p \in Positions :
              LET failed == MoveHandled(games, u, g, p, FALSE)
              IN  /\ failed.games = MoveStep(games, u, g, p).games
                  /\ failed.games = MoveHandled(games, u, g, p, TRUE).games
                  /\ failed.answer = "MovedUpdateFailed" =>
                          /\ failed.games # games
                          /\ Marks(GameOf(failed.games, g).board) =
                                  Marks(GameOf(games, g).board) + 1
        /\ \A u \in Users :
              LET failed == JoinHandled(games, u, g, DefaultSymbols, FALSE)
              IN  /\ failed.games = JoinStep(games, u, g, DefaultSymbols).games
                  /\ failed.answer = "JoinedUpdateFailed" =>
                          u \in { GameOf(failed.games, g).player1_id,
                                  GameOf(failed.games, g).player2_id }
        /\ LET failed == ResetHandled(games, g, FALSE)
           IN  /\ failed.games = ResetStep(games, g).games
               /\ (failed.answer = "ResetUpdateFailed" /\ BothSeated(GameOf(games, g))) =>
                       GameOf(failed.games, g).board = EmptyBoard
        /\ LET failed == DeleteHandled(games, g, FALSE)
           IN  /\ failed.games = DeleteStep(games, g).games
               /\ failed.answer = "DeletedUpdateFailed" => ~HasGame(failed.games, g)

\* C22 witness: a session in progress where the move of the player on turn
\* ends the game and the re-rendering fails: the finished game is stored.
C22_Witness ==
    \E g \in GameIds :
        /\ HasGame(games, g)
        /\ InProgress(GameOf(games, g))
        /\ \E p \in Cells :
              LET failed == MoveHandled(games, SeatOnTurn(GameOf(games, g)), g, p, FALSE)
              IN  /\ failed.answer = "MovedUpdateFailed"
                  /\ GameOf(failed.games, g).game_over
                  /\ GameOf(failed.games, g).board[p] # ""

\* C23: with the default symbols, in every round, those started by a reset
\* included, the player who moves first is the first player and plays "X"
\* and the player who moves second plays "O".
C23_FirstMoverPlaysX ==
    \A g \in GameIds :
        (HasGame(games, g) /\ BothSeated(GameOf(games, g))) =>
            LET game == GameOf(games, g)
            IN  /\ game.player1_symbol = "X"
                /\ game.player2_symbol = "O"
                /\ (InProgress(game) /\ game.board = EmptyBoard) =>
                        \A u \in Users, p \in Cells :
                            MoveOn(game, u, p).answer = "Moved" =>
                                /\ u = game.player1_id
                                /\ MoveOn(game, u, p).game.board[p] = "X"

\* C24: in every session the second seat is empty exactly when the session
\* is waiting for the second player, and a waiting session is not over and
\* has an empty board.
C24_Seat2IffWaiting ==
    \A g \in GameIds :
        HasGame(games, g) =>
            LET game == GameOf(games, g)
            IN  /\ (game.player2_id = None) <=> game.waiting_for_second_player
                /\ game.waiting_for_second_player =>
                        /\ ~game.game_over
                        /\ game.board = EmptyBoard

\* C24 witness: a session waiting with an empty second seat, whose creator's
\* click on a cell is turned away, so that its board stays empty.
C24_Witness ==
    \E g \in GameIds :
        /\ HasGame(games, g)
        /\ LET game == GameOf(games, g)
           IN  /\ game.player2_id = None
               /\ game.waiting_for_second_player
               /\ MoveStep(games, game.player1_id, g, 4).answer = "NotReady"
               /\ MoveStep(games, game.player1_id, g, 4).games = games

\* C25: a session is over exactly when its board holds a uniform non-empty
\* line or has no empty cell; a session over without a recorded winner has a
\* full board, and a recorded winner is the symbol check_winner returns for
\* the board.
C25_OverIffLineOrFull ==
    \A g \in GameIds :
        HasGame(games, g) =>
            LET game == GameOf(games, g)
            IN  /\ game.game_over <=>
                        (UniformLine(game.board) \/ is_board_full(game.board))
                /\ (game.game_over /\ game.winner = None) =>
                        is_board_full(game.board)
                /\ game.winner # None => game.winner = check_winner(game.board)

\* C25 witness: a session over with a recorded winner on a board that still
\* has an empty cell.
C25_Witness ==
    \E g \in GameIds :
        /\ HasGame(games, g)
        /\ LET game == GameOf(games, g)
           IN  /\ game.game_over
               /\ game.winner # None
               /\ game.winner = check_winner(game.board)
               /\ ~is_board_full(game.board)

\* What an event other than the reset and the delete of the session x makes
\* of the registry: every join and move carrying x, and every join, move,
\* reset and delete carrying another id.
EventsSparing(gs, x) ==
    {JoinStep(gs, u, x, s).games : u \in Users, s \in SymbolPairs}
        \cup {MoveStep(gs, u, x, p).games : u \in Users, p \in Positions}
        \cup UNION {EventsOn(gs, y) : y \in TwoIds \ {x}}

C27_OutsiderDeleteRefused ==
    \A g \in GameIds :
        HasGame(games, g) =>
            \A w \in Users \ {GameOf(games, g).player1_id,
                               GameOf(games, g).player2_id} :
                /\ HasGame(DeleteRequest(games, w, g).games, g)
                /\ DeleteRequest(games, w, g).games = games

\* The number of cells of the board that hold the symbol.
CountOf(board, symbol) == Cardinality({c \in Cells : board[c] = symbol})

\* C28: in a session whose two symbols differ, the cells holding the first
\* player's symbol are as many as those holding the second player's or one
\* more, and while the game is in progress the first player is on turn
\* exactly when the two numbers are equal.
C28_CountsFollowTurn ==
    \A g \in GameIds :
        (HasGame(games, g)
            /\ GameOf(games, g).player1_symbol # GameOf(games, g).player2_symbol) =>
            LET game == GameOf(games, g)
                n1   == CountOf(game.board, game.player1_symbol)
                n2   == CountOf(game.board, game.player2_symbol)
            IN  /\ n1 - n2 \in {0, 1}
                /\ InProgress(game) =>
                        (SeatOnTurn(game) = game.player1_id <=> n1 = n2)

\* C28 witness: a game in progress with two marks of the first player and
\* one of the second, the second player on turn.
C28_Witness ==
    \E g \in GameIds :
        /\ HasGame(games, g)
        /\ LET game == GameOf(games, g)
           IN  /\ game.player1_symbol # game.player2_symbol
               /\ InProgress(game)
               /\ CountOf(game.board, game.player1_symbol) = 2
               /\ CountOf(game.board, game.player2_symbol) = 1
               /\ SeatOnTurn(game) = game.player2_id

\* C29: whenever both seats of a session are taken they hold two different
\* users; the join and the reset that swaps the roles keep it so.
C29_SeatsDiffer ==
    \A g \in GameIds :
        HasGame(games, g) =>
            LET game == GameOf(games, g)
                seatsOk(rec) == BothSeated(rec) => rec.player1_id # rec.player2_id
            IN  /\ seatsOk(game)
                /\ \A u \in Users, s \in SymbolPairs :
                        seatsOk(GameOf(JoinStep(games, u, g, s).games, g))
                /\ seatsOk(GameOf(ResetStep(games, g).games, g))

\* C29 witness: a waiting session whose creator accepts the invitation again
\* and is not seated a second time.
C29_Witness ==
    \E g \in GameIds :
        /\ HasGame(games, g)
        /\ LET game == GameOf(games, g)
           IN  /\ game.waiting_for_second_player
               /\ \E s \in SymbolPairs :
                      LET r == JoinStep(games, game.player1_id, g, s)
                      IN  /\ r.answer = "AlreadySeat1"
                          /\ GameOf(r.games, g).player2_id = None

\* A step that changes the board of a session fills one empty cell and
\* leaves the other cells as they were.
FillsOneCell ==
    \A g \in GameIds :
        (HasGame(games, g) /\ HasGame(games', g)
            /\ GameOf(games', g).board # GameOf(games, g).board) =>
            \E c \in Cells :
                /\ GameOf(games, g).board[c] = ""
                /\ GameOf(games', g).board[c] # ""
                /\ \A d \in Cells \ {c} :
                        GameOf(games', g).board[d] = GameOf(games, g).board[d]

\* C30: every round ends: with no reset, each accepted move fills one more
\* of the 9 cells, so at most 9 moves are accepted, and when the player on
\* turn keeps clicking empty cells and no reset or delete occurs, a game in
\* progress is over in the end.
C30_RoundTerminates ==
    /\ [][FillsOneCell]_vars
    /\ \A g \in GameIds :
            (HasGame(games, g) /\ InProgress(GameOf(games, g)))
                ~> (HasGame(games, g) /\ GameOf(games, g).game_over)

\* C30 witness: a game that was over only with the ninth accepted move,
\* which completed a line.
C30_Witness ==
    \E g \in GameIds :
        /\ HasGame(games, g)
        /\ LET game == GameOf(games, g)
           IN  /\ game.game_over
               /\ game.winner # None
               /\ Marks(game.board) = 9

\* The session records of the registry, each by its bucket and its id.
Records(gs) ==
    {r \in (1 .. Len(gs)) \X TwoIds : r[2] \in DOMAIN gs[r[1]][2]}

\* No bucket of the registry is empty, and the buckets are not more than the
\* session records they hold.
BucketsInUse(gs) ==
    /\ \A i \in 1 .. Len(gs) : DOMAIN gs[i][2] # {}
    /\ Len(gs) <= Cardinality(Records(gs))

\* C31: no creator's bucket is ever empty: a bucket comes into the registry
\* only with its first session, and the delete of a creator's last session
\* removes the bucket too, so the buckets are never more than the live
\* sessions; this is so in every reachable state and after the join or the
\* delete of any id in it.
C31_NoEmptyBucket ==
    /\ BucketsInUse(games)
    /\ \A x \in TwoIds :
            /\ BucketsInUse(DeleteStep(games, x).games)
            /\ \A u \in Users : BucketsInUse(JoinStep(games, u, x, DefaultSymbols).games)
            /\ (HasGame(games, x) /\ DOMAIN games[FindIdx(games, x)][2] = {x}) =>
                    Len(DeleteStep(games, x).games) = Len(games) - 1

\* C31 witness: two creators with one session each, where the delete of one
\* session takes its creator's bucket away and leaves the other's.
C31_Witness ==
    /\ Len(games) = 2
    /\ \E x \in TwoIds :
          /\ HasGame(games, x)
          /\ DOMAIN games[FindIdx(games, x)][2] = {x}
          /\ Len(DeleteStep(games, x).games) = 1
          /\ DOMAIN DeleteStep(games, x).games[1][2] # {}

====
